---- MODULE Spec2Model ----
(***************************************************************************)
(* Match assessment and decision cache of cross-seed (src/src/prowlarr.ts).*)
(* assessResult (assessResultCaching) is an async function: the code       *)
(* between two awaits runs atomically, so every action below is one such   *)
(* run-to-completion segment of one invocation.                            *)
(***************************************************************************)
EXTENDS Integers, Sequences, FiniteSets, TLC

VARIABLES
    decisions,          \* db.data.decisions[name][Guid], in memory
    partitions,         \* names n for which db.data.decisions[n] exists
    disk,               \* what the last db.write() flushed
    torrentCache,       \* <infoHash>.cached.torrent files on disk
    clock,              \* Date.now()
    inv,                \* the in-flight invocations of assessResult
    last,               \* the invocation that completed last (history)
    externallyDeleted,  \* a cached torrent file was removed from outside
    probe,              \* arguments and result of a pure function under test
    wasMatch,           \* the keys whose entry is or has been MATCH (history)
    startup             \* doStartupValidation (src/src/startup.ts)

vars == <<decisions, partitions, disk, torrentCache, clock, inv, last,
          externallyDeleted, probe, wasMatch, startup>>

(***************************** bounds **************************************)
MaxClock == 1
MaxFiles == 2
MaxSlack == 2

(***************************** constants ***********************************)
\* fuzzySizeThreshold, default 0.02, as the fraction ThresholdNum/ThresholdDen
ThresholdNum == 2
ThresholdDen == 100

MATCH == "MATCH"
SIZE_MISMATCH == "SIZE_MISMATCH"
NO_DOWNLOAD_LINK == "NO_DOWNLOAD_LINK"
DOWNLOAD_FAILED == "DOWNLOAD_FAILED"
INFO_HASH_ALREADY_EXISTS == "INFO_HASH_ALREADY_EXISTS"
FILE_TREE_MISMATCH == "FILE_TREE_MISMATCH"

Decision ==
    {MATCH, SIZE_MISMATCH, NO_DOWNLOAD_LINK, DOWNLOAD_FAILED,
     INFO_HASH_ALREADY_EXISTS, FILE_TREE_MISMATCH}

\* the value of a field that is not there
Undefined == "undefined"

File(p, l) == [path |-> p, length |-> l]

\* The searchees handed in by the directory scanner.
Searchees ==
    { [name |-> "s1", files |-> <<File("a", 60), File("b", 40)>>, length |-> 100],
      [name |-> "s2", files |-> <<File("a", 60), File("c", 40), File("b", 40)>>,
       length |-> 140] }

Names == {s.name : s \in Searchees}
Guids == {"g1"}
Keys == Names \X Guids

\* The info dictionaries the indexers serve; source is the per-tracker tag
\* that makes two torrents of the same files different torrents.
InfoDicts ==
    { [files |-> <<File("a", 60), File("b", 40)>>, source |-> "t1"],
      [files |-> <<File("a", 60), File("c", 40)>>, source |-> "t2"] }

\* the hash of an info dictionary
Sha1(info) ==
    IF info.source = "t1" /\ info.files = <<File("a", 60), File("b", 40)>> THEN "h1"
    ELSE IF info.source = "t2" /\ info.files = <<File("a", 60), File("c", 40)>> THEN "h2"
    ELSE "h0"

InfoHashes == {Sha1(d) : d \in InfoDicts}

\* parse-torrent: bytes -> Metafile; the infoHash is computed from the bytes
parseTorrent(bytes) ==
    [infoHash |-> Sha1([files |-> bytes.files, source |-> bytes.source]),
     files |-> bytes.files, source |-> bytes.source]

\* parse-torrent: Metafile -> bytes; the infoHash is not stored
toTorrentFile(meta) ==
    [kind |-> "torrent", files |-> meta.files, source |-> meta.source]

Metafiles == {parseTorrent(toTorrentFile(d)) : d \in InfoDicts}

NoInfo == [infoHash |-> Undefined, files |-> <<>>, source |-> Undefined]

\* contents of a file of the torrent cache folder
Absent == [kind |-> "absent", files |-> <<>>, source |-> Undefined]
Partial == [kind |-> "partial", files |-> <<>>, source |-> Undefined]

\* A candidate (ProwlarrResult): only Guid, Size and Link decide anything.
Sizes == {100, 103}
Links == {"", "http://link"}

NoEntry ==
    [decision |-> Undefined, firstSeen |-> 0, lastSeen |-> 0, infoHash |-> Undefined]

SearcheeOf(n) == CHOOSE s \in Searchees : s.name = n

(***************************** pure functions ******************************)
\* cmp with the lengths left out of the comparison
cmp_PathOnly(elOfA, elOfB) ==
    LET pathsAreEqual == elOfB.path = elOfA.path
    IN  pathsAreEqual

cmp(elOfA, elOfB) ==
    LET lengthsAreEqual == elOfB.length = elOfA.length
        pathsAreEqual == elOfB.path = elOfA.path
    IN  lengthsAreEqual /\ pathsAreEqual

compareFileTrees(candidate, searchee) ==
    \A i \in 1..Len(candidate.files) :
        \E j \in 1..Len(searchee.files) :
            cmp(candidate.files[i], searchee.files[j])

(***************************** IEEE 754 doubles ****************************)
\* The numbers of the size check are JavaScript numbers: binary64 values,
\* every operation rounded to the nearest, ties to even.  A natural number
\* of any size is the sequence of its bits, lowest first, without leading
\* zeros; a non-negative double is m * 2^e with m of at most Precision bits.
Precision == 53

RECURSIVE natBits(_)
natBits(n) == IF n = 0 THEN <<>> ELSE <<n % 2>> \o natBits(n \div 2)

\* a without its leading zeros
trimBits(a) ==
    LET ones == {i \in 1..Len(a) : a[i] = 1}
    IN  IF ones = {} THEN <<>>
        ELSE SubSeq(a, 1, CHOOSE i \in ones : \A j \in ones : j <= i)

bitAt(a, i) == IF i <= Len(a) THEN a[i] ELSE 0

\* a + b; the carry into bit i comes from the nearest lower bit that does
\* not pass a carry on
addBits(a, b) ==
    LET n == (IF Len(a) > Len(b) THEN Len(a) ELSE Len(b)) + 1
        carry(i) ==
            IF \E j \in 1..(i - 1) :
                  /\ bitAt(a, j) + bitAt(b, j) = 2
                  /\ \A k \in (j + 1)..(i - 1) : bitAt(a, k) + bitAt(b, k) >= 1
            THEN 1 ELSE 0
        sum == [i \in 1..n |-> (bitAt(a, i) + bitAt(b, i) + carry(i)) % 2]
    IN  trimBits(SubSeq(sum, 1, n))

\* a - b, for a >= b; the borrow from bit i likewise
subBits(a, b) ==
    LET n == Len(a)
        borrow(i) ==
            IF \E j \in 1..(i - 1) :
                  /\ bitAt(a, j) < bitAt(b, j)
                  /\ \A k \in (j + 1)..(i - 1) : bitAt(a, k) <= bitAt(b, k)
            THEN 1 ELSE 0
        diff == [i \in 1..n |-> (bitAt(a, i) - bitAt(b, i) - borrow(i) + 2) % 2]
    IN  trimBits(SubSeq(diff, 1, n))

\* a * 2^k
shiftBits(a, k) ==
    IF a = <<>> THEN a ELSE SubSeq([i \in 1..k |-> 0], 1, k) \o a

\* a * b, b the shorter of the two
RECURSIVE mulBits(_, _)
mulBits(a, b) ==
    IF b = <<>> THEN <<>>
    ELSE addBits(IF Head(b) = 1 THEN a ELSE <<>>,
                 shiftBits(mulBits(a, Tail(b)), 1))

\* a <= b
lessEqBits(a, b) ==
    IF Len(a) # Len(b) THEN Len(a) < Len(b)
    ELSE LET differ == {i \in 1..Len(a) : a[i] # b[i]}
         IN  differ = {} \/ b[CHOOSE i \in differ : \A j \in differ : j <= i] = 1

\* 2^k modulo d
RECURSIVE powerOfTwoMod(_, _)
powerOfTwoMod(k, d) ==
    IF k = 0 THEN 1 % d
    ELSE IF k % 2 = 0
    THEN (powerOfTwoMod(k \div 2, d) * powerOfTwoMod(k \div 2, d)) % d
    ELSE (2 * powerOfTwoMod(k - 1, d)) % d

\* the number made of the bits lo .. hi of a, modulo d
RECURSIVE bitsMod(_, _, _, _)
bitsMod(a, lo, hi, d) ==
    IF lo > hi THEN 0
    ELSE IF lo = hi THEN a[lo] % d
    ELSE LET mid == (lo + hi) \div 2
         IN  (bitsMod(a, lo, mid, d)
              + powerOfTwoMod(mid + 1 - lo, d) * bitsMod(a, mid + 1, hi, d)) % d

\* quotient and remainder of a by the small number d: long division, the
\* remainder of the bits above bit i brought down to it
divBits(a, d) ==
    LET n == Len(a)
        quotient == [i \in 1..n |-> (2 * bitsMod(a, i + 1, n, d) + a[i]) \div d]
    IN  [quotient |-> trimBits(SubSeq(quotient, 1, n)),
         remainder |-> bitsMod(a, 1, n, d)]

\* the double nearest to bits * 2^e (+ something below the lowest bit when
\* sticky), ties to even
roundToDouble(bits, e, sticky) ==
    LET n == Len(bits)
        d == n - Precision
    IN  IF d <= 0 THEN [m |-> bits, e |-> e]
        ELSE LET kept == SubSeq(bits, d + 1, n)
                 guard == bits[d]
                 rest == sticky \/ \E i \in 1..(d - 1) : bits[i] = 1
                 up == guard = 1 /\ (rest \/ kept[1] = 1)
                 m == IF up THEN addBits(kept, <<1>>) ELSE kept
             IN  IF Len(m) > Precision
                 THEN [m |-> Tail(m), e |-> e + d + 1]
                 ELSE [m |-> m, e |-> e + d]

\* the double of a natural number below 2^Precision
fromNat(n) == [m |-> natBits(n), e |-> 0]

\* the double a decimal literal num/den is read as (parseFloat)
fromRatio(num, den) ==
    LET shift == Precision + 2 + Len(natBits(den))
        q == divBits(shiftBits(natBits(num), shift), den)
    IN  roundToDouble(q.quotient, 0 - shift, q.remainder # 0)

\* both mantissas at the smaller of the two exponents
alignDoubles(x, y) ==
    LET e == IF x.e < y.e THEN x.e ELSE y.e
    IN  [x |-> shiftBits(x.m, x.e - e), y |-> shiftBits(y.m, y.e - e), e |-> e]

mulDouble(x, y) ==
    roundToDouble(IF Len(x.m) < Len(y.m) THEN mulBits(y.m, x.m)
                  ELSE mulBits(x.m, y.m),
                  x.e + y.e, FALSE)

addDouble(x, y) ==
    LET a == alignDoubles(x, y) IN roundToDouble(addBits(a.x, a.y), a.e, FALSE)

\* x - y, for x >= y
subDouble(x, y) ==
    LET a == alignDoubles(x, y) IN roundToDouble(subBits(a.x, a.y), a.e, FALSE)

lessEqDouble(x, y) ==
    LET a == alignDoubles(x, y) IN lessEqBits(a.x, a.y)

(***************************** the size check ******************************)
\* sizeDoesMatch under a runtime configuration whose fuzzySizeThreshold is
\* the decimal threshold.num / threshold.den (lines 192-195)
sizeDoesMatchWith(threshold, resultSize, searchee) ==
    LET fuzzySizeThreshold == fromRatio(threshold.num, threshold.den)
        length == fromNat(searchee.length)
        lowerBound == subDouble(length, mulDouble(fuzzySizeThreshold, length))
        upperBound == addDouble(length, mulDouble(fuzzySizeThreshold, length))
    IN  lessEqDouble(lowerBound, fromNat(resultSize))
        /\ lessEqDouble(fromNat(resultSize), upperBound)

\* getRuntimeConfig(): the configuration does not change during a run
getRuntimeConfig ==
    [fuzzySizeThreshold |-> [num |-> ThresholdNum, den |-> ThresholdDen]]

\* the size check of every candidate size against every searchee, computed
\* once for the run's configuration
sizeChecks ==
    [resultSize \in Sizes |->
        [name \in Names |->
            sizeDoesMatchWith(getRuntimeConfig.fuzzySizeThreshold, resultSize,
                              SearcheeOf(name))]]

sizeDoesMatch(resultSize, searchee) == sizeChecks[resultSize][searchee.name]

(***************************** state ***************************************)
\* One invocation of assessResultCaching: its arguments, where it stands,
\* and what it has done so far.
Idle ==
    [pc |-> "idle", name |-> Undefined, Guid |-> Undefined, Size |-> 0,
     Link |-> "", excl |-> {}, branch |-> Undefined,
     before |-> NoEntry, prev |-> Undefined,
     fetched |-> NoInfo, decision |-> Undefined, info |-> NoInfo,
     fetches |-> 0, tfWrites |-> 0, flushes |-> 0, logs |-> <<>>, at |-> 0]

Slots == {1, 2}

\* the errors of doStartupValidation, by the step that raised them
CrossSeedError == "CrossSeedError"
NoError == [from |-> "none", class |-> "none"]
ErrorClasses == {CrossSeedError, "Error"}
Checks == {"prowlarr", "client", "torrentDir"}

\* prowlarrServerUrl, as its characters
ProwlarrUrls == {<<"u">>, <<"u", "/">>}

\* getRuntimeConfig(), the options the startup validation reads
Configs ==
    [action : {"save", "inject"}, rtorrentRpcUrl : BOOLEAN,
     qbittorrentUrl : BOOLEAN, prowlarrServerUrl : ProwlarrUrls]

\* doStartupValidation before it is called
NotStarted ==
    [pc |-> "idle",
     config |-> [action |-> "save", rtorrentRpcUrl |-> FALSE,
                 qbittorrentUrl |-> FALSE, prowlarrServerUrl |-> <<"u">>],
     downloadClient |-> FALSE,
     checks |-> [c \in Checks |-> "notStarted"],
     rejections |-> [c \in Checks |-> "none"],
     started |-> <<>>, log |-> <<>>, error |-> NoError]

InFlight == {i \in Slots : inv[i].pc # "idle"}

KeyOf(r) == <<r.name, r.Guid>>

Init ==
    /\ decisions = [k \in Keys |-> NoEntry]
    /\ partitions = {}
    /\ disk = [decisions |-> [k \in Keys |-> NoEntry], partitions |-> {}]
    /\ torrentCache = [h \in InfoHashes |-> Absent]
    /\ clock = 0
    /\ inv = [i \in Slots |-> Idle]
    /\ last = Idle
    /\ externallyDeleted = FALSE
    /\ probe = [op |-> "none"]
    /\ wasMatch = {}
    /\ startup = NotStarted

(***************************** helpers *************************************)
existsInTorrentCache(infoHash) ==
    infoHash \in InfoHashes /\ torrentCache[infoHash].kind # "absent"

\* createReasonLogger: the messages logReason(decision, cached) appends
logReason(logs, decision, cached) ==
    IF decision = MATCH THEN logs
    ELSE Append(logs, [decision |-> decision, cached |-> cached])

\* assessResultHelper up to its first await: the size check, the link check
\* and the call of parseTorrentFromURL
assessResultHelper(r, searchee) ==
    IF ~sizeDoesMatch(r.Size, searchee)
    THEN [r EXCEPT !.pc = "assessed", !.decision = SIZE_MISMATCH]
    ELSE IF r.Link = ""
    THEN [r EXCEPT !.pc = "assessed", !.decision = NO_DOWNLOAD_LINK]
    ELSE [r EXCEPT !.pc = "fetching", !.fetches = @ + 1]

\* afterFetch with the file trees compared before the exclusion check
afterFetch_CompareFirst(r, searchee, info) ==
    LET got == [r EXCEPT !.pc = "assessed", !.fetched = info]
    IN  IF info = NoInfo
        THEN [got EXCEPT !.decision = DOWNLOAD_FAILED]
        ELSE IF ~compareFileTrees(info, searchee)
        THEN [got EXCEPT !.decision = FILE_TREE_MISMATCH]
        ELSE IF info.infoHash \in r.excl
        THEN [got EXCEPT !.decision = INFO_HASH_ALREADY_EXISTS]
        ELSE [got EXCEPT !.decision = MATCH, !.info = info]

\* afterFetch with a failed download kept on the retry
afterFetch_KeepFailure(r, searchee, info) ==
    LET got == [r EXCEPT !.pc = "assessed", !.fetched = info]
    IN  IF info = NoInfo \/ r.before.decision = DOWNLOAD_FAILED
        THEN [got EXCEPT !.decision = DOWNLOAD_FAILED]
        ELSE IF info.infoHash \in r.excl
        THEN [got EXCEPT !.decision = INFO_HASH_ALREADY_EXISTS]
        ELSE IF ~compareFileTrees(info, searchee)
        THEN [got EXCEPT !.decision = FILE_TREE_MISMATCH]
        ELSE [got EXCEPT !.decision = MATCH, !.info = info]

\* afterFetch handing the fetched metafile back with every decision
afterFetch_KeepInfo(r, searchee, info) ==
    LET got == [r EXCEPT !.pc = "assessed", !.fetched = info, !.info = info]
    IN  IF info = NoInfo
        THEN [got EXCEPT !.decision = DOWNLOAD_FAILED]
        ELSE IF info.infoHash \in r.excl
        THEN [got EXCEPT !.decision = INFO_HASH_ALREADY_EXISTS]
        ELSE IF ~compareFileTrees(info, searchee)
        THEN [got EXCEPT !.decision = FILE_TREE_MISMATCH]
        ELSE [got EXCEPT !.decision = MATCH]

\* assessResultHelper after parseTorrentFromURL returned info (NoInfo: null)
afterFetch(r, searchee, info) ==
    LET got == [r EXCEPT !.pc = "assessed", !.fetched = info]
    IN  IF info = NoInfo
        THEN [got EXCEPT !.decision = DOWNLOAD_FAILED]
        ELSE IF info.infoHash \in r.excl
        THEN [got EXCEPT !.decision = INFO_HASH_ALREADY_EXISTS]
        ELSE IF ~compareFileTrees(info, searchee)
        THEN [got EXCEPT !.decision = FILE_TREE_MISMATCH]
        ELSE [got EXCEPT !.decision = MATCH, !.info = info]

\* branchOf with FILE_TREE_MISMATCH retried as DOWNLOAD_FAILED is
branchOf_RetryMismatch(cacheEntry, excl) ==
    IF cacheEntry.decision = Undefined THEN "new"
    ELSE IF cacheEntry.decision \in {DOWNLOAD_FAILED, FILE_TREE_MISMATCH}
    THEN "retry"
    ELSE IF cacheEntry.decision = MATCH /\ cacheEntry.infoHash \in excl
    THEN "excluded"
    ELSE IF cacheEntry.decision = MATCH /\ existsInTorrentCache(cacheEntry.infoHash)
    THEN "cachedMatch"
    ELSE IF cacheEntry.decision = MATCH THEN "missingFile"
    ELSE "cachedRejection"

\* branchOf with the cached file looked up before the exclusion set
branchOf_FileFirst(cacheEntry, excl) ==
    IF cacheEntry.decision = Undefined THEN "new"
    ELSE IF cacheEntry.decision = DOWNLOAD_FAILED THEN "retry"
    ELSE IF cacheEntry.decision = MATCH /\ existsInTorrentCache(cacheEntry.infoHash)
    THEN "cachedMatch"
    ELSE IF cacheEntry.decision = MATCH /\ cacheEntry.infoHash \in excl
    THEN "excluded"
    ELSE IF cacheEntry.decision = MATCH THEN "missingFile"
    ELSE "cachedRejection"

\* branchOf with DOWNLOAD_FAILED kept as any other cached rejection
branchOf_NoRetry(cacheEntry, excl) ==
    IF cacheEntry.decision = Undefined THEN "new"
    ELSE IF cacheEntry.decision = MATCH /\ cacheEntry.infoHash \in excl
    THEN "excluded"
    ELSE IF cacheEntry.decision = MATCH /\ existsInTorrentCache(cacheEntry.infoHash)
    THEN "cachedMatch"
    ELSE IF cacheEntry.decision = MATCH THEN "missingFile"
    ELSE "cachedRejection"

\* the branch assessResultCaching takes for the entry it finds
\* an INFO_HASH_ALREADY_EXISTS entry whose infoHash has left the exclusion
\* set is assessed again
branchOf_Unexclude(cacheEntry, excl) ==
    IF cacheEntry.decision = Undefined THEN "new"
    ELSE IF cacheEntry.decision = DOWNLOAD_FAILED THEN "retry"
    ELSE IF cacheEntry.decision = MATCH /\ cacheEntry.infoHash \in excl
    THEN "excluded"
    ELSE IF cacheEntry.decision = MATCH /\ existsInTorrentCache(cacheEntry.infoHash)
    THEN "cachedMatch"
    ELSE IF cacheEntry.decision = MATCH THEN "missingFile"
    ELSE IF /\ cacheEntry.decision = INFO_HASH_ALREADY_EXISTS
            /\ cacheEntry.infoHash # Undefined
            /\ cacheEntry.infoHash \notin excl
    THEN "missingFile"
    ELSE "cachedRejection"

branchOf(cacheEntry, excl) ==
    IF cacheEntry.decision = Undefined THEN "new"
    ELSE IF cacheEntry.decision = DOWNLOAD_FAILED THEN "retry"
    ELSE IF cacheEntry.decision = MATCH /\ cacheEntry.infoHash \in excl
    THEN "excluded"
    ELSE IF cacheEntry.decision = MATCH /\ existsInTorrentCache(cacheEntry.infoHash)
    THEN "cachedMatch"
    ELSE IF cacheEntry.decision = MATCH THEN "missingFile"
    ELSE "cachedRejection"

\* the decision of the previous invocation when it returned and this one
\* repeats it: same key, same candidate, same exclusion set
prevOf(name, Guid, Size, Link, excl) ==
    IF /\ last.pc = "returned"
       /\ last.name = name /\ last.Guid = Guid
       /\ last.Size = Size /\ last.Link = Link /\ last.excl = excl
    THEN last.decision
    ELSE Undefined

\* savedEntry without the infoHash of a MATCH
savedEntry_NoHash(decision, info, lastSeen, firstSeen) ==
    [decision |-> decision, lastSeen |-> lastSeen,
     firstSeen |-> firstSeen, infoHash |-> Undefined]

\* the entry assessAndSaveResults stores (lines 259-267): a new object with
\* both timestamps, and the infoHash for a MATCH only
savedEntry(decision, info, lastSeen, firstSeen) ==
    LET entry == [decision |-> decision, lastSeen |-> lastSeen,
                  firstSeen |-> firstSeen, infoHash |-> Undefined]
    IN  IF decision = MATCH
        THEN [entry EXCEPT !.infoHash = info.infoHash]
        ELSE entry

\* parseTorrentFromFilename: the file is read and parsed; a file that is
\* gone or is not a torrent rejects the promise
parseTorrentFromFilename(bytes) ==
    IF bytes.kind = "torrent"
    THEN [rejected |-> FALSE, info |-> parseTorrent(bytes)]
    ELSE [rejected |-> TRUE, info |-> NoInfo]

\* lines 327-329: lastSeen, db.write(), return
Return(i, r, newDecisions) ==
    LET flushed == [newDecisions EXCEPT ![KeyOf(r)].lastSeen = clock]
    IN  /\ decisions' = flushed
        /\ disk' = [decisions |-> flushed, partitions |-> partitions']
        /\ last' = [r EXCEPT !.pc = "returned", !.flushes = @ + 1, !.at = clock]
        /\ inv' = [inv EXCEPT ![i] = Idle]

\* an exception leaves assessResultCaching: nothing after it runs
Throw(i, r) ==
    /\ last' = [r EXCEPT !.pc = "threw", !.at = clock]
    /\ inv' = [inv EXCEPT ![i] = Idle]

(***************************** actions *************************************)
\* assessResultCaching from its call to its first await (lines 278-326);
\* the branches without an await run to the return.
InvokeWith(i, maxInFlight, searchees, sizes, links, exclusions) ==
    \E searchee \in searchees, Guid \in Guids, Size \in sizes, Link \in links,
       excl \in exclusions :
        LET key == <<searchee.name, Guid>>
            cacheEntry == decisions[key]
            branch == branchOf(cacheEntry, excl)
            r == [Idle EXCEPT !.name = searchee.name, !.Guid = Guid,
                              !.Size = Size, !.Link = Link, !.excl = excl,
                              !.branch = branch, !.before = cacheEntry,
                              !.prev = prevOf(searchee.name, Guid, Size, Link, excl)]
        IN  /\ inv[i].pc = "idle"
            /\ i = CHOOSE j \in Slots : inv[j].pc = "idle"
            /\ Cardinality(InFlight) < maxInFlight
            /\ partitions' = partitions \cup {searchee.name}
            /\ UNCHANGED <<torrentCache, clock, externallyDeleted, probe, wasMatch, startup>>
            /\ CASE branch \in {"new", "retry", "missingFile"} ->
                      /\ inv' = [inv EXCEPT ![i] = assessResultHelper(r, searchee)]
                      /\ last' = Idle
                      /\ UNCHANGED <<decisions, disk>>
                 [] branch = "excluded" ->
                      Return(i, [r EXCEPT !.decision = INFO_HASH_ALREADY_EXISTS],
                             [decisions EXCEPT ![key].decision = INFO_HASH_ALREADY_EXISTS])
                 [] branch = "cachedMatch" ->
                      /\ inv' = [inv EXCEPT ![i] =
                                   [r EXCEPT !.pc = "reading",
                                             !.decision = cacheEntry.decision]]
                      /\ last' = Idle
                      /\ UNCHANGED <<decisions, disk>>
                 [] branch = "cachedRejection" ->
                      Return(i, [r EXCEPT !.decision = cacheEntry.decision,
                                          !.logs = logReason(@, cacheEntry.decision, TRUE)],
                             decisions)

Invoke(i, maxInFlight) ==
    InvokeWith(i, maxInFlight, Searchees, Sizes, Links, SUBSET InfoHashes)

\* parseTorrentFromURL resolves, with a Metafile or with null, and
\* assessResultHelper runs to its return (lines 211-221)
FetchReturn(i) ==
    /\ inv[i].pc = "fetching"
    /\ \E info \in Metafiles \cup {NoInfo} :
           inv' = [inv EXCEPT ![i] = afterFetch(@, SearcheeOf(@.name), info)]
    /\ UNCHANGED <<decisions, partitions, disk, torrentCache, clock, last,
                   externallyDeleted, probe, wasMatch, startup>>

\* assessAndSaveResults after the helper (lines 259-270): the entry is
\* replaced, then for a MATCH the infoHash is set and the torrent file is
\* written; writeFileSync may throw, leaving no file or a truncated one.
\* The two Date.now() calls may straddle a tick of the clock.
SaveResults(i) ==
    /\ inv[i].pc = "assessed"
    /\ \E now2 \in {clock, clock + 1}, written \in {"ok", "unchanged", "partial"} :
        LET r == inv[i]
            key == KeyOf(r)
            matched == r.decision = MATCH
            saved == savedEntry(r.decision, r.info, clock, now2)
        IN  /\ now2 <= MaxClock
            /\ matched \/ written = "ok"
            /\ clock' = now2
            /\ decisions' = [decisions EXCEPT ![key] = saved]
            /\ torrentCache' =
                 IF ~matched \/ written = "unchanged" THEN torrentCache
                 ELSE IF written = "ok"
                 THEN [torrentCache EXCEPT ![r.info.infoHash] = toTorrentFile(r.info)]
                 ELSE [torrentCache EXCEPT ![r.info.infoHash] = Partial]
            /\ LET r2 == [r EXCEPT !.pc = "saved",
                                   !.tfWrites = IF matched THEN @ + 1 ELSE @]
               IN  IF written = "ok"
                   THEN inv' = [inv EXCEPT ![i] = r2] /\ UNCHANGED last
                   ELSE Throw(i, r2)
    /\ wasMatch' = IF inv[i].decision = MATCH THEN wasMatch \cup {KeyOf(inv[i])}
                                             ELSE wasMatch
    /\ UNCHANGED <<partitions, disk, externallyDeleted, probe, startup>>

\* assessResultCaching after assessAndSaveResults (lines 296/321, 327-329)
LogAndReturn(i) ==
    /\ inv[i].pc = "saved"
    /\ UNCHANGED <<partitions, torrentCache, clock, externallyDeleted, probe,
                   wasMatch, startup>>
    /\ Return(i, [inv[i] EXCEPT !.logs = logReason(@, inv[i].decision, FALSE)],
              decisions)

\* getCachedTorrentFile resolves (line 312): the stored bytes are parsed;
\* a file that is gone or cannot be parsed rejects the promise.
ReadReturn(i) ==
    /\ inv[i].pc = "reading"
    /\ UNCHANGED <<partitions, torrentCache, clock, externallyDeleted, probe,
                   wasMatch, startup>>
    /\ LET r == inv[i]
           read == parseTorrentFromFilename(torrentCache[r.before.infoHash])
       IN  IF ~read.rejected
           THEN Return(i, [r EXCEPT !.info = read.info], decisions)
           ELSE Throw(i, r) /\ UNCHANGED <<decisions, disk>>

\* Date.now() advances
Tick ==
    /\ clock < MaxClock
    /\ clock' = clock + 1
    /\ UNCHANGED <<decisions, partitions, disk, torrentCache, inv, last,
                   externallyDeleted, probe, wasMatch, startup>>

\* a cached torrent file is removed from outside, between two invocations
ExternalDelete ==
    /\ InFlight = {}
    /\ \E h \in InfoHashes :
           /\ torrentCache[h].kind # "absent"
           /\ torrentCache' = [torrentCache EXCEPT ![h] = Absent]
    /\ externallyDeleted' = TRUE
    /\ last' = Idle
    /\ UNCHANGED <<decisions, partitions, disk, clock, inv, probe, wasMatch, startup>>

\* sequential execution: one candidate is assessed at a time
Next ==
    \/ \E i \in Slots : Invoke(i, 1)
    \/ \E i \in Slots : FetchReturn(i)
    \/ \E i \in Slots : SaveResults(i)
    \/ \E i \in Slots : LogAndReturn(i)
    \/ \E i \in Slots : ReadReturn(i)
    \/ Tick
    \/ ExternalDelete

Spec == Init /\ [][Next]_vars

\* the candidates of the overlapping runs: one searchee, a size that passes
\* the size check, nothing or the candidate's own infoHash excluded
OverlapSearchees == {s \in Searchees : s.name = "s1"}
OverlapSizes == {s.length : s \in OverlapSearchees}
OverlapExclusions == {{}, {"h1"}}

\* one key is assessed again and again with the same candidate, whose size
\* matches and which has a download link; the exclusion set may change
Retry(i) ==
    InvokeWith(i, 1, OverlapSearchees, OverlapSizes, Links \ {""}, SUBSET InfoHashes)

\* parseTorrentFromURL returns a metafile
FetchSucceeds(i) == FetchReturn(i) /\ inv'[i].fetched # NoInfo

NextRetry ==
    \/ \E i \in Slots : Retry(i)
    \/ \E i \in Slots : FetchReturn(i)
    \/ \E i \in Slots : SaveResults(i)
    \/ \E i \in Slots : LogAndReturn(i)
    \/ \E i \in Slots : ReadReturn(i)
    \/ Tick
    \/ ExternalDelete

\* the caller keeps assessing, every started step of an invocation
\* completes, and a fetch that is tried again and again succeeds in the end
SpecRetry ==
    /\ Init /\ [][NextRetry]_vars
    /\ WF_vars(\E i \in Slots : Retry(i))
    /\ WF_vars(\E i \in Slots : FetchReturn(i))
    /\ WF_vars(\E i \in Slots : SaveResults(i))
    /\ WF_vars(\E i \in Slots : LogAndReturn(i))
    /\ WF_vars(\E i \in Slots : ReadReturn(i))
    /\ SF_vars(\E i \in Slots : FetchSucceeds(i))

\* validateOptions throws (startup.ts lines 8-15)
validateOptions(config) ==
    config.action = "inject" /\ ~(config.rtorrentRpcUrl \/ config.qbittorrentUrl)

\* the warning of validateProwlarrApi (lines 71-73)
prowlarrWarnings(prowlarrServerUrl) ==
    IF prowlarrServerUrl[Len(prowlarrServerUrl)] = "/"
    THEN <<"Warning: Prowlarr server url should not end with '/'">>
    ELSE <<>>

\* validateProwlarrApi without its try/catch
validateProwlarrApi_NoCatch(ok, e) ==
    IF ok THEN "none" ELSE e

\* how validateProwlarrApi settles once makeProwlarrRequest has, with e the
\* request's error (lines 77-82): "none" is fulfilment
validateProwlarrApi(ok, e) ==
    IF ok THEN "none" ELSE CrossSeedError

\* doStartupValidation up to its await (startup.ts lines 18-27)
StartValidation ==
    /\ startup.pc = "idle"
    /\ \E config \in Configs, client \in BOOLEAN :
         LET begun == [startup EXCEPT
                          !.config = config,
                          !.log = <<"Validating your configuration...">>]
         IN  IF validateOptions(config)
             THEN startup' = [begun EXCEPT
                                 !.pc = "rejected",
                                 !.error = [from |-> "options",
                                            class |-> CrossSeedError]]
             ELSE startup' = [begun EXCEPT
                                 !.pc = "running",
                                 !.downloadClient = client,
                                 !.log = @ \o prowlarrWarnings(config.prowlarrServerUrl),
                                 !.checks = [c \in Checks |->
                                               IF c = "client" /\ ~client
                                               THEN "filtered" ELSE "pending"],
                                 !.started = <<"prowlarr">>
                                             \o (IF client THEN <<"client">> ELSE <<>>)
                                             \o <<"torrentDir">>]
    /\ UNCHANGED <<decisions, partitions, disk, torrentCache, clock, inv, last,
                   externallyDeleted, probe, wasMatch>>

\* one of the promises given to Promise.all settles, rejected with an error
\* of the class given or fulfilled when that is "none"; Promise.all rejects
\* with the first rejection and resolves when every promise is fulfilled,
\* and then line 28 logs
Settle(check, rejection) ==
    LET checks == [startup.checks EXCEPT
                      ![check] = IF rejection = "none" THEN "fulfilled"
                                 ELSE "rejected"]
        settled == [startup EXCEPT !.checks = checks,
                                   !.rejections[check] = rejection]
    IN  /\ startup.checks[check] = "pending"
        /\ startup' =
             IF startup.pc # "running" THEN settled
             ELSE IF rejection # "none"
             THEN [settled EXCEPT !.pc = "rejected",
                                  !.error = [from |-> check, class |-> rejection]]
             ELSE IF \A c \in Checks : checks[c] \in {"fulfilled", "filtered"}
             THEN [settled EXCEPT !.pc = "resolved",
                                  !.log = Append(@, "Your configuration is valid!")]
             ELSE settled
        /\ UNCHANGED <<decisions, partitions, disk, torrentCache, clock, inv, last,
                       externallyDeleted, probe, wasMatch>>

\* makeProwlarrRequest settles (line 78)
ProwlarrRequestSettles ==
    \E ok \in BOOLEAN, e \in {"FetchError"} :
        Settle("prowlarr", validateProwlarrApi(ok, e))

\* downloadClient.validateConfig() settles (startup.ts line 24)
ClientConfigSettles ==
    \E rejection \in {"none"} \cup ErrorClasses : Settle("client", rejection)

\* validateTorrentDir() settles (startup.ts line 25)
TorrentDirSettles ==
    \E rejection \in {"none"} \cup ErrorClasses : Settle("torrentDir", rejection)

NextStartup ==
    \/ StartValidation
    \/ ProwlarrRequestSettles
    \/ ClientConfigSettles
    \/ TorrentDirSettles

SpecStartup == Init /\ [][NextStartup]_vars

\* overlapping execution: the caller starts a second assessResult while the
\* first one awaits (nothing in assessResultCaching serializes by key)
NextConc ==
    \/ \E i \in Slots :
          InvokeWith(i, 2, OverlapSearchees, OverlapSizes, Links, OverlapExclusions)
    \/ \E i \in Slots : FetchReturn(i)
    \/ \E i \in Slots : SaveResults(i)
    \/ \E i \in Slots : LogAndReturn(i)
    \/ \E i \in Slots : ReadReturn(i)

SpecConc == Init /\ [][NextConc]_vars

(***************************** compareFileTrees alone **********************)
ProbeFiles == {File(p, l) : p \in {"a", "b"}, l \in {1, 2}}

\* the file trees of at most MaxFiles files
Trees == UNION {[1..n -> ProbeFiles] : n \in 0..MaxFiles}

InitCompare ==
    /\ decisions = [k \in Keys |-> NoEntry]
    /\ partitions = {}
    /\ disk = [decisions |-> [k \in Keys |-> NoEntry], partitions |-> {}]
    /\ torrentCache = [h \in InfoHashes |-> Absent]
    /\ clock = 0
    /\ inv = [i \in Slots |-> Idle]
    /\ last = Idle
    /\ externallyDeleted = FALSE
    /\ wasMatch = {}
    /\ startup = NotStarted
    /\ \E c \in Trees, t \in Trees :
           probe = [op |-> "compareFileTrees",
                    candidate |-> [files |-> c], searchee |-> [files |-> t],
                    done |-> FALSE, result |-> FALSE]

ApplyCompare ==
    /\ probe.op = "compareFileTrees" /\ ~probe.done
    /\ probe' = [probe EXCEPT
                    !.done = TRUE,
                    !.result = compareFileTrees(probe.candidate, probe.searchee)]
    /\ UNCHANGED <<decisions, partitions, disk, torrentCache, clock, inv, last,
                   externallyDeleted, wasMatch, startup>>

NextCompare == ApplyCompare

SpecCompare == InitCompare /\ [][NextCompare]_vars

(***************************** sizeDoesMatch alone *************************)
ProbeLengths == {50, 100, 200}

\* fuzzySizeThreshold values in [0, 1), as decimals of two places
ProbeThresholds == {[num |-> n, den |-> 100] : n \in {0, 2, 10, 57, 99}}

\* the whole sizes at most MaxSlack bytes away from one of the two bounds
\* length * (1 - threshold) and length * (1 + threshold)
ProbeSizes(length, threshold) ==
    {size \in 0..(2 * length + MaxSlack) :
        \E sign \in {-1, 1} :
            LET bound == length * (threshold.den + sign * threshold.num)
                off == size * threshold.den - bound
            IN  off <= MaxSlack * threshold.den /\ 0 - off <= MaxSlack * threshold.den}

InitSize ==
    /\ decisions = [k \in Keys |-> NoEntry]
    /\ partitions = {}
    /\ disk = [decisions |-> [k \in Keys |-> NoEntry], partitions |-> {}]
    /\ torrentCache = [h \in InfoHashes |-> Absent]
    /\ clock = 0
    /\ inv = [i \in Slots |-> Idle]
    /\ last = Idle
    /\ externallyDeleted = FALSE
    /\ wasMatch = {}
    /\ startup = NotStarted
    /\ \E length \in ProbeLengths, threshold \in ProbeThresholds :
         \E size \in ProbeSizes(length, threshold) :
           probe = [op |-> "sizeDoesMatch", threshold |-> threshold,
                    resultSize |-> size, searchee |-> [length |-> length],
                    done |-> FALSE, result |-> FALSE]

ApplySize ==
    /\ probe.op = "sizeDoesMatch" /\ ~probe.done
    /\ probe' = [probe EXCEPT
                    !.done = TRUE,
                    !.result = sizeDoesMatchWith(probe.threshold, probe.resultSize,
                                                 probe.searchee)]
    /\ UNCHANGED <<decisions, partitions, disk, torrentCache, clock, inv, last,
                   externallyDeleted, wasMatch, startup>>

NextSize == ApplySize

SpecSize == InitSize /\ [][NextSize]_vars

(***************************** properties **********************************)
\* the invocations in sight: those in flight and the one that completed last
Calls == {inv[i] : i \in InFlight} \cup (IF last.pc = "idle" THEN {} ELSE {last})

Completed(r) == r.pc \in {"returned", "threw"}

\* the full assessment (assessAndSaveResults) has run to its decision
Assessed(r) ==
    /\ r.branch \in {"new", "retry", "missingFile"}
    /\ r.pc \in {"assessed", "saved", "returned", "threw"}

Rejections ==
    {SIZE_MISMATCH, NO_DOWNLOAD_LINK, FILE_TREE_MISMATCH, INFO_HASH_ALREADY_EXISTS}

\* C1 as claimed: an invocation that repeats the one before it (same key,
\* candidate and exclusion set, nothing in between) returns the same
\* decision, whatever that decision was, and fetches nothing when the first
\* decision was a rejection other than DOWNLOAD_FAILED or a MATCH.
C1_SameDecisionAlways ==
    (last.pc = "returned" /\ last.prev # Undefined) =>
        /\ last.decision = last.prev
        /\ last.prev \in Rejections \cup {MATCH} => last.fetches = 0

\* C1 amended: an invocation that repeats the one before it returns the
\* same decision whenever the first decision was not DOWNLOAD_FAILED, and
\* then it fetches nothing; a repeated DOWNLOAD_FAILED is assessed afresh.
C1_Idempotent ==
    \A r \in Calls :
        r.prev \in Rejections \cup {MATCH} =>
            /\ r.fetches = 0
            /\ r.pc # "threw"
            /\ r.pc = "returned" => r.decision = r.prev

C1_Witness ==
    /\ last.pc = "returned" /\ last.prev = MATCH /\ last.decision = MATCH
    /\ last.fetches = 0

\* C2: an invocation that finds a MATCH entry whose infoHash is in its
\* exclusion set returns INFO_HASH_ALREADY_EXISTS, stores that decision and
\* fetches nothing, whether or not the torrent file is still cached.
C2_ExclusionTransition ==
    \A r \in Calls :
        (r.before.decision = MATCH /\ r.before.infoHash \in r.excl) =>
            /\ r.pc = "returned"
            /\ r.decision = INFO_HASH_ALREADY_EXISTS
            /\ decisions[KeyOf(r)].decision = INFO_HASH_ALREADY_EXISTS
            /\ r.fetches = 0

C2_Witness ==
    /\ last.pc = "returned"
    /\ last.before.decision = MATCH /\ last.before.infoHash \in last.excl
    /\ existsInTorrentCache(last.before.infoHash)
    /\ last.decision = INFO_HASH_ALREADY_EXISTS

\* C3: an invocation that finds DOWNLOAD_FAILED runs the full assessment
\* again, with a fetch when the size matches and there is a link; one that
\* finds any other rejection returns it from the cache without a fetch and
\* leaves the entry as it was but for lastSeen.
C3_RetryOnlyOnFailure ==
    \A r \in Calls :
        /\ (r.before.decision = DOWNLOAD_FAILED
              /\ sizeDoesMatch(r.Size, SearcheeOf(r.name)) /\ r.Link # "") =>
                r.fetches = 1
        /\ (r.before.decision = DOWNLOAD_FAILED /\ r.pc = "returned") =>
                /\ r.logs = logReason(<<>>, r.decision, FALSE)
                /\ decisions[KeyOf(r)].decision = r.decision
        /\ r.before.decision \in Rejections =>
                /\ r.pc = "returned"
                /\ r.fetches = 0 /\ r.tfWrites = 0
                /\ r.decision = r.before.decision
                /\ r.logs = <<[decision |-> r.before.decision, cached |-> TRUE]>>
                /\ decisions[KeyOf(r)] = [r.before EXCEPT !.lastSeen = r.at]

C3_Witness ==
    /\ last.pc = "returned" /\ last.before.decision = DOWNLOAD_FAILED
    /\ last.fetches = 1 /\ last.decision = FILE_TREE_MISMATCH

\* C4: the full assessment checks the size, then the link, then fetches,
\* then checks the exclusion set, then compares the file trees, and the
\* first stage that fails gives the decision.
C4_StageOrder ==
    \A r \in Calls :
        Assessed(r) =>
            LET searchee == SearcheeOf(r.name)
                sizeOk == sizeDoesMatch(r.Size, searchee)
                fetchedOk == r.fetches = 1 /\ r.fetched # NoInfo
            IN  /\ ~sizeOk => r.decision = SIZE_MISMATCH
                /\ (sizeOk /\ r.Link = "") => r.decision = NO_DOWNLOAD_LINK
                /\ (~sizeOk \/ r.Link = "") => r.fetches = 0
                /\ (sizeOk /\ r.Link # "") => r.fetches = 1
                /\ (r.fetches = 1 /\ r.fetched = NoInfo) =>
                       r.decision = DOWNLOAD_FAILED
                /\ (fetchedOk /\ r.fetched.infoHash \in r.excl) =>
                       r.decision = INFO_HASH_ALREADY_EXISTS
                /\ (fetchedOk /\ r.fetched.infoHash \notin r.excl
                      /\ ~compareFileTrees(r.fetched, searchee)) =>
                       r.decision = FILE_TREE_MISMATCH
                /\ r.decision = MATCH <=>
                       /\ sizeOk /\ r.Link # "" /\ fetchedOk
                       /\ r.fetched.infoHash \notin r.excl
                       /\ compareFileTrees(r.fetched, searchee)

C4_Witness ==
    /\ last.pc = "returned" /\ Assessed(last)
    /\ last.fetched # NoInfo /\ last.fetched.infoHash \in last.excl
    /\ ~compareFileTrees(last.fetched, SearcheeOf(last.name))
    /\ last.decision = INFO_HASH_ALREADY_EXISTS

\* C5 as claimed: once a key has an entry, no later step changes the
\* entry's firstSeen.
C5_FirstSeenSetOnce ==
    [][\A k \in Keys :
          decisions[k].decision # Undefined =>
              decisions'[k].firstSeen = decisions[k].firstSeen]_vars

\* C6: every MATCH entry, in memory and as flushed, carries an infoHash,
\* and it is the infoHash of the metafile whose assessment gave the MATCH.
C6_MatchHasInfoHash ==
    /\ \A k \in Keys :
          /\ decisions[k].decision = MATCH => decisions[k].infoHash \in InfoHashes
          /\ disk.decisions[k].decision = MATCH =>
                 disk.decisions[k].infoHash \in InfoHashes
    /\ \A r \in Calls :
          (Assessed(r) /\ r.decision = MATCH
             /\ r.pc \in {"saved", "returned", "threw"}) =>
                 decisions[KeyOf(r)].infoHash = r.fetched.infoHash

C6_Witness ==
    /\ last.pc = "returned" /\ Assessed(last) /\ last.decision = MATCH
    /\ disk.decisions[KeyOf(last)].decision = MATCH

\* C7 as claimed: while no cached torrent file has been removed from
\* outside, every MATCH entry has its torrent file stored under its infoHash.
C7_MatchImpliesStoredFile ==
    ~externallyDeleted =>
        \A k \in Keys :
            decisions[k].decision = MATCH =>
                /\ decisions[k].infoHash \in InfoHashes
                /\ torrentCache[decisions[k].infoHash].kind = "torrent"

\* C8 as claimed: every invocation that has come to its end has flushed the
\* decision cache exactly once, after its last mutation, and has written
\* the torrent file cache once when its full assessment gave MATCH and not
\* at all otherwise.
C8_SideEffectCounts ==
    Completed(last) =>
        /\ last.flushes = 1
        /\ disk.decisions = decisions /\ disk.partitions = partitions
        /\ last.tfWrites = IF Assessed(last) /\ last.decision = MATCH THEN 1 ELSE 0

\* C9 as claimed: every invocation ends by returning one of the six
\* decisions; the only exception that leaves it is a failed write of the
\* torrent file cache, a fatal disk condition.
C9_NeverThrows ==
    /\ last.pc = "returned" => last.decision \in Decision
    /\ last.pc = "threw" => last.tfWrites = 1

\* C10: compareFileTrees(C, S) holds exactly when every (path, length) of C
\* is one of S; so the empty C matches every S, a C with a file S lacks
\* does not match, and a C lacking files of S can still match.
C10_SubsetLaw ==
    (probe.op = "compareFileTrees" /\ probe.done) =>
        LET C == {probe.candidate.files[i] : i \in 1..Len(probe.candidate.files)}
            S == {probe.searchee.files[j] : j \in 1..Len(probe.searchee.files)}
        IN  /\ probe.result <=> C \subseteq S
            /\ C = {} => probe.result
            /\ (\E f \in C : \A g \in S : f.path # g.path \/ f.length # g.length)
                   => ~probe.result

C10_Witness ==
    /\ probe.op = "compareFileTrees" /\ probe.done /\ probe.result
    /\ Len(probe.candidate.files) = 1 /\ Len(probe.searchee.files) = 2
    /\ probe.searchee.files[1] # probe.searchee.files[2]
    /\ ~compareFileTrees(probe.searchee, probe.candidate)

\* C11 as claimed: sizeDoesMatch accepts a size exactly when
\* length * (1 - threshold) <= size <= length * (1 + threshold), both ends
\* included.
C11_SizeBound ==
    (probe.op = "sizeDoesMatch" /\ probe.done) =>
        LET num == probe.threshold.num
            den == probe.threshold.den
            length == probe.searchee.length
            size == probe.resultSize
        IN  probe.result <=>
                /\ length * (den - num) <= size * den
                /\ size * den <= length * (den + num)

\* C12 (a): a key that has an entry keeps an entry.
C12_KeysKept ==
    [][\A k \in Keys :
          decisions[k].decision # Undefined => decisions'[k].decision # Undefined]_vars

\* C12 (b): an invocation that returns has set its entry's lastSeen to the
\* time of its flush, and no step moves a lastSeen back.
C12_LastSeenNow ==
    last.pc = "returned" =>
        /\ decisions[KeyOf(last)].lastSeen = last.at
        /\ disk.decisions[KeyOf(last)].lastSeen = last.at

C12_LastSeenGrows ==
    [][\A k \in Keys : decisions'[k].lastSeen >= decisions[k].lastSeen]_vars

\* C12 (c): every entry of every flush has firstSeen <= lastSeen.
C12_FlushedOrdered ==
    \A k \in Keys :
        disk.decisions[k].decision # Undefined =>
            disk.decisions[k].firstSeen <= disk.decisions[k].lastSeen

\* C12 as claimed: over any sequence of invocations with a non-decreasing
\* clock, (a) no key loses its entry, (b) every returning invocation has set
\* lastSeen to the current time before its flush and lastSeen never
\* decreases, and (c) every flushed entry has firstSeen <= lastSeen.
C12_Timestamps ==
    /\ C12_KeysKept
    /\ []C12_LastSeenNow
    /\ C12_LastSeenGrows
    /\ []C12_FlushedOrdered

\* C13: once the entry of a key holds SIZE_MISMATCH, NO_DOWNLOAD_LINK,
\* FILE_TREE_MISMATCH or INFO_HASH_ALREADY_EXISTS, every later invocation on
\* that key, whatever the candidate, the exclusion set and the torrent file
\* cache, returns that decision, fetches nothing, writes no torrent file and
\* changes no field of the entry but lastSeen.
C13_Absorbing ==
    /\ [](\A r \in Calls :
             r.before.decision \in Rejections =>
                 /\ r.pc = "returned"
                 /\ r.decision = r.before.decision
                 /\ r.fetches = 0
                 /\ r.tfWrites = 0
                 /\ decisions[KeyOf(r)] = [r.before EXCEPT !.lastSeen = r.at])
    /\ [][\A k \in Keys :
              decisions[k].decision \in Rejections =>
                  decisions'[k] = [decisions[k] EXCEPT !.lastSeen = decisions'[k].lastSeen]]_vars

\* an INFO_HASH_ALREADY_EXISTS entry is kept although its infoHash is no
\* longer excluded and its torrent file is gone, for another candidate size
C13_Witness ==
    /\ last.pc = "returned"
    /\ last.before.decision = INFO_HASH_ALREADY_EXISTS
    /\ last.before.infoHash # Undefined
    /\ last.before.infoHash \notin last.excl
    /\ torrentCache[last.before.infoHash].kind = "absent"
    /\ last.Size = 103
    /\ last.decision = INFO_HASH_ALREADY_EXISTS
    /\ last.at > last.before.lastSeen

\* C14 as claimed: for an entry that is MATCH with an infoHash H outside the
\* exclusion set, (a) when the torrent file cache holds H the invocation
\* returns MATCH with the metafile read from the cache, without a fetch or a
\* cache write, and (b) when it does not hold H the full assessment runs
\* again, and when that yields MATCH the torrent file cache holds the
\* matched infoHash afterwards.
C14_CachedMatchByFile ==
    \A r \in Calls :
        /\ r.branch = "cachedMatch" =>
               /\ r.fetches = 0 /\ r.tfWrites = 0
               /\ Completed(r) =>
                      /\ r.pc = "returned"
                      /\ r.decision = MATCH
                      /\ r.info # NoInfo
                      /\ r.info.infoHash = r.before.infoHash
        /\ r.branch = "missingFile" =>
               /\ Completed(r) => Assessed(r)
               /\ (Completed(r) /\ r.decision = MATCH) =>
                      torrentCache[r.info.infoHash] = toTorrentFile(r.info)

\* C14 (a) alone, for a cached file that is a complete torrent file
C14_ReadsCompleteFile ==
    \A r \in Calls :
        (r.branch = "cachedMatch" /\ Completed(r)
            /\ torrentCache[r.before.infoHash].kind = "torrent") =>
               /\ r.pc = "returned" /\ r.decision = MATCH
               /\ r.info.infoHash = r.before.infoHash
               /\ r.fetches = 0 /\ r.tfWrites = 0

\* C14 (b) alone
C14_RegeneratesFile ==
    \A r \in Calls :
        (r.branch = "missingFile" /\ Completed(r)) =>
            /\ Assessed(r)
            /\ r.decision = MATCH =>
                   torrentCache[r.info.infoHash] = toTorrentFile(r.info)

\* C15 as claimed: an entry has an infoHash exactly when its decision is
\* MATCH or has been MATCH before; an entry re-assessed from MATCH to another
\* decision keeps its infoHash, an entry that never was MATCH has none.
C15_InfoHashIffWasMatch ==
    \A k \in Keys :
        /\ decisions[k].decision = MATCH => k \in wasMatch
        /\ decisions[k].infoHash # Undefined <=> k \in wasMatch

\* C15, the direction the code keeps: an infoHash is only ever stored for a
\* key that is or has been MATCH
C15_InfoHashOnlyAfterMatch ==
    \A k \in Keys : decisions[k].infoHash # Undefined => k \in wasMatch

\* C16 as claimed: when two invocations for the same key are in flight at
\* the same time, the full assessment (fetch and compare) runs at most once
\* for the key, and the decision each of them returns is the decision the
\* cache holds once both have finished.
C16_AtMostOnce ==
    /\ [](\A i \in InFlight, j \in InFlight :
             (i # j /\ KeyOf(inv[i]) = KeyOf(inv[j])) =>
                 /\ inv[i].fetches + inv[j].fetches <= 1
                 /\ ~(Assessed(inv[i]) /\ Assessed(inv[j])))
    /\ [][\A j \in InFlight :
              (/\ last.pc = "returned" /\ KeyOf(last) = KeyOf(inv[j])
               /\ inv'[j].pc = "idle" /\ last'.pc = "returned") =>
                  /\ decisions'[KeyOf(last)].decision = last.decision
                  /\ decisions'[KeyOf(last)].decision = last'.decision]_vars

\* two invocations on one key both hold a fetched metafile
C16_BothAssessed ==
    \E i \in InFlight, j \in InFlight :
        /\ i # j /\ KeyOf(inv[i]) = KeyOf(inv[j])
        /\ inv[i].fetches = 1 /\ inv[j].fetches = 1
        /\ Assessed(inv[i]) /\ Assessed(inv[j])

\* C17 as claimed: an invocation that returns a decision other than MATCH
\* has logged exactly one reason message, marked "(cached)" exactly when
\* the decision came from the cache without a full assessment; one that
\* returns MATCH has logged no reason message.
C17_RejectionLogged ==
    last.pc = "returned" =>
        IF last.decision = MATCH
        THEN last.logs = <<>>
        ELSE /\ Len(last.logs) = 1
             /\ last.logs[1].decision = last.decision
             /\ last.logs[1].cached <=> ~Assessed(last)

\* C17 on every branch but the exclusion transition of lines 297-304
C17_LoggedUnlessExcluded ==
    (last.pc = "returned" /\ last.branch # "excluded") =>
        IF last.decision = MATCH
        THEN last.logs = <<>>
        ELSE /\ Len(last.logs) = 1
             /\ last.logs[1].decision = last.decision
             /\ last.logs[1].cached <=> ~Assessed(last)

\* C18: doStartupValidation checks the options first and, for action
\* "inject" with neither rtorrentRpcUrl nor qbittorrentUrl, fails with a
\* CrossSeedError before any of the three validations is started; "Your
\* configuration is valid!" is logged only after the Prowlarr check, the
\* client check (when there is a client) and the torrent dir check have
\* all completed without error; a failed Prowlarr request makes the
\* validation fail, with the CrossSeedError of validateProwlarrApi.
C18_StartupOrder ==
    /\ startup.pc # "idle" =>
           startup.log[1] = "Validating your configuration..."
    /\ (startup.pc # "idle" /\ validateOptions(startup.config)) =>
           /\ startup.pc = "rejected"
           /\ startup.error = [from |-> "options", class |-> CrossSeedError]
           /\ startup.started = <<>>
           /\ \A c \in Checks : startup.checks[c] = "notStarted"
           /\ Len(startup.log) = 1
    /\ (\E n \in 1..Len(startup.log) : startup.log[n] = "Your configuration is valid!") =>
           /\ startup.pc = "resolved"
           /\ startup.checks["prowlarr"] = "fulfilled"
           /\ startup.checks["torrentDir"] = "fulfilled"
           /\ startup.checks["client"] =
                  (IF startup.downloadClient THEN "fulfilled" ELSE "filtered")
           /\ startup.log[Len(startup.log)] = "Your configuration is valid!"
    /\ startup.checks["prowlarr"] = "rejected" =>
           /\ startup.pc = "rejected"
           /\ startup.rejections["prowlarr"] = CrossSeedError
           /\ startup.error.from = "prowlarr" => startup.error.class = CrossSeedError
           /\ (\A c \in Checks : c # "prowlarr" => startup.checks[c] # "rejected")
                  => startup.error = [from |-> "prowlarr", class |-> CrossSeedError]

\* the Prowlarr request fails after the client check has passed and while the
\* torrent dir check is still running
C18_Witness ==
    /\ startup.pc = "rejected"
    /\ startup.config.action = "inject"
    /\ startup.started = <<"prowlarr", "client", "torrentDir">>
    /\ startup.checks = [c \in Checks |->
                            CASE c = "prowlarr" -> "rejected"
                              [] c = "client" -> "fulfilled"
                              [] c = "torrentDir" -> "pending"]
    /\ startup.error = [from |-> "prowlarr", class |-> CrossSeedError]

\* C19: in sequential execution, when an invocation returns, the decision
\* it returns is the decision of the key's entry as flushed, and the
\* assessment carries a metafile exactly when the decision is MATCH, with
\* the infoHash of the entry.
C19_ReturnAgreesWithCache ==
    last.pc = "returned" =>
        /\ decisions[KeyOf(last)].decision = last.decision
        /\ disk.decisions[KeyOf(last)].decision = last.decision
        /\ last.info # NoInfo <=> last.decision = MATCH
        /\ last.decision = MATCH =>
               /\ last.info.infoHash = decisions[KeyOf(last)].infoHash
               /\ last.info.infoHash = disk.decisions[KeyOf(last)].infoHash

\* a cached MATCH is returned with the metafile read from the torrent file
\* cache after the clock has moved on
C19_Witness ==
    /\ last.pc = "returned"
    /\ last.branch = "cachedMatch"
    /\ last.decision = MATCH
    /\ last.info.infoHash = disk.decisions[KeyOf(last)].infoHash
    /\ disk.decisions[KeyOf(last)].lastSeen > last.before.lastSeen

\* C20: a key assessed repeatedly with the same size-matching candidate
\* that has a download link, under a fetch that succeeds in the end, leaves
\* DOWNLOAD_FAILED for MATCH, FILE_TREE_MISMATCH or
\* INFO_HASH_ALREADY_EXISTS; and an entry that holds a decision other than
\* DOWNLOAD_FAILED or MATCH is never DOWNLOAD_FAILED again.
C20_EventuallySettles ==
    /\ \A k \in Keys :
           (decisions[k].decision = DOWNLOAD_FAILED)
               ~> (decisions[k].decision \in
                      {MATCH, FILE_TREE_MISMATCH, INFO_HASH_ALREADY_EXISTS})
    /\ [][\A k \in Keys :
              decisions[k].decision \in Rejections =>
                  decisions'[k].decision # DOWNLOAD_FAILED]_vars

\* a retry of a failed download has settled the entry
C20_Witness ==
    /\ last.pc = "returned"
    /\ last.branch = "retry"
    /\ last.before.decision = DOWNLOAD_FAILED
    /\ last.fetched # NoInfo
    /\ last.decision \in {MATCH, FILE_TREE_MISMATCH, INFO_HASH_ALREADY_EXISTS}
    /\ decisions[KeyOf(last)].decision = last.decision

====
